---- MODULE Spec2Model ----
(***************************************************************************)
(* Model of the Genkit agent engine (vibe-agent-genkit-engine).            *)
(*                                                                         *)
(* The repository holds several drafts of src/index.ts.  A deployment runs *)
(* exactly one of them; `version` names it:                                *)
(*   "v4.0.0"  src/src/index.ts   lines 163-301                            *)
(*   "v5.0.0"  src/src/index.ts   lines   1-162                            *)
(*   "v4.1"    src/unnamed/part_000 lines   1-70                           *)
(*   "ARCE"    src/unnamed/part_000 lines  71-139                          *)
(*   "v5.2.0"  src/unnamed/part_000 lines 140-348                          *)
(*   "v5.3.1"  src/unnamed/part_001                                        *)
(*                                                                         *)
(* A text (a JavaScript string) is a sequence of tokens; each token stands *)
(* for a fixed run of characters, concatenation of texts is \o, and string *)
(* equality is equality of the sequences.  One request is served at a      *)
(* time; every `await` on a port (the prompt store, the model) is a        *)
(* suspension point and so a boundary between two actions.                 *)
(***************************************************************************)
EXTENDS Integers, Sequences, FiniteSets, TLC

VARIABLES
    version,    \* the draft that is deployed
    flow,       \* the flow the caller invoked ("none" before the request)
    input,      \* the text the caller passed
    history,    \* the chat history the caller passed (chat flows)
    cur,        \* the flow whose body is running
    arg,        \* the input of the running flow body
    pc,         \* "idle", "fetch", "gen", "returned", "done"
    cstate,     \* position of taskExecutionFlow
    plan,       \* local `plan` of taskExecutionFlow
    ret,        \* what the last sub-flow handed back to taskExecutionFlow
    result,     \* what the caller of the request receives
    storeLog,   \* reads issued to Firestore (prompt ids), in order
    storeResp,  \* the outcomes of those reads, in order
    genLog,     \* ai.generate() requests, in order
    genResp,    \* the outcomes of those requests, in order
    trace,      \* flow invocations and completions inside taskExecutionFlow
    store,      \* the genkit_prompts collection in Firestore
    reqs        \* the requests in flight when several are served at once

vars == <<version, flow, input, history, cur, arg, pc, cstate, plan, ret, result,
          storeLog, storeResp, genLog, genResp, trace, store, reqs>>

----------------------------------------------------------------------------
(* Bounds *)

MaxText == 3
MaxSteps == 2

----------------------------------------------------------------------------
(* Texts *)

WS == {" ", "\n"}

RECURSIVE TrimStart(_)
TrimStart(t) ==
    IF t = <<>> THEN t
    ELSE IF Head(t) \in WS THEN TrimStart(Tail(t)) ELSE t

RECURSIVE TrimEnd(_)
TrimEnd(t) ==
    IF t = <<>> THEN t
    ELSE IF t[Len(t)] \in WS THEN TrimEnd(SubSeq(t, 1, Len(t) - 1)) ELSE t

\* String.prototype.trim
Trim(t) == TrimEnd(TrimStart(t))

SeqsUpTo(S, n) == UNION {[1..k -> S] : k \in 0..n}

\* t occurs in u starting at position i
OccursAt(t, u, i) ==
    /\ i >= 1
    /\ i + Len(t) - 1 <= Len(u)
    /\ SubSeq(u, i, i + Len(t) - 1) = t

Contains(u, t) == \E i \in 1..(Len(u) + 1) : OccursAt(t, u, i)

Digit == <<"0", "1", "2", "3", "4", "5", "6", "7", "8", "9">>

\* Number -> decimal string, as template-literal interpolation does
RECURSIVE NatToStr(_)
NatToStr(n) ==
    IF n < 10 THEN <<Digit[n + 1]>>
    ELSE NatToStr(n \div 10) \o <<Digit[(n % 10) + 1]>>

RECURSIVE Join(_, _)
\* Array.prototype.join
Join(parts, sep) ==
    IF parts = <<>> THEN <<>>
    ELSE IF Len(parts) = 1 THEN parts[1]
    ELSE parts[1] \o sep \o Join(Tail(parts), sep)

----------------------------------------------------------------------------
(* Versions and flows *)

Versions == {"v4.0.0", "v5.0.0", "v4.1", "ARCE", "v5.2.0", "v5.3.1"}

\* the flows each draft registers with its server.  "architectTextFlow" is the
\* architectFlow of the ARCE draft, whose output is JSON text (z.string()), not
\* a PlanSchema object
FlowsOf(v) ==
    CASE v = "v4.0.0" -> {"projectManagerChatFlow", "architectFlow",
                          "searchAndAnswerFlow", "creatorFlow", "editorFlow"}
      [] v = "v5.0.0" -> {"projectManagerChatFlow", "architectFlow",
                          "searchAndAnswerFlow", "creatorFlow", "editorFlow"}
      [] v = "v4.1"   -> {"generalChatFlow", "taskClassifierFlow", "componentBuilderFlow"}
      [] v = "ARCE"   -> {"architectTextFlow", "searchAndAnswerFlow", "creatorFlow",
                          "editorFlow"}
      [] v = "v5.2.0" -> {"projectManagerChatFlow", "architectFlow",
                          "searchAndAnswerFlow", "creatorFlow", "editorFlow",
                          "componentBuilderFlow", "taskExecutionFlow"}
      [] v = "v5.3.1" -> {"projectManagerChatFlow", "architectFlow",
                          "searchAndAnswerFlow", "creatorFlow", "editorFlow",
                          "componentBuilderFlow", "taskExecutionFlow",
                          "taskClassifierFlow"}

\* flows whose input carries a chat history
ChatFlows == {"projectManagerChatFlow", "generalChatFlow"}

\* flows that fetch their system prompt from Firestore
PromptFlows == {"architectFlow", "creatorFlow", "editorFlow", "searchAndAnswerFlow",
                "architectTextFlow"}

\* flows that go straight to ai.generate()
DirectFlows == {"componentBuilderFlow", "generalChatFlow", "projectManagerChatFlow"}

\* flows that end with `return response.text`
TextFlows == {"editorFlow", "searchAndAnswerFlow", "componentBuilderFlow",
              "generalChatFlow"}

MaxHistory == 2

\* a ChatTurn of MessageSchema: {role, content}
Turn(r, c) == [role |-> r, content |-> c]
Turns == {Turn(r, c) : r \in {"user", "model"}, c \in {<<>>, <<"hi">>}}

\* the history a caller passes; generalChatFlow's is optional
Hist(g, h) == [given |-> g, turns |-> h]
NoHistory == Hist(FALSE, <<>>)
Histories == {NoHistory} \cup {Hist(TRUE, h) : h \in SeqsUpTo(Turns, MaxHistory)}

\* what callers may send
Inputs == {<<"Write a product brief">>, <<"hello", " ", "there">>}

----------------------------------------------------------------------------
(* Prompt store port *)

Fallback(v) ==
    IF v = "v4.0.0"
    THEN <<"You are a helpful assistant.">>
    ELSE <<"You are a helpful assistant. Your primary prompt failed to load.">>

\* what docRef.get() / doc.data() can do
StoreOutcomes ==
    {[kind |-> "throws",  text |-> <<>>],
     [kind |-> "missing", text |-> <<>>],
     [kind |-> "nofield", text |-> <<>>],
     [kind |-> "text",    text |-> <<>>],
     [kind |-> "text",    text |-> <<"stored persona">>]}

\* getGenkitPromptFromFirestore without the `if (promptText)` test
GetPromptUnchecked(v, o) ==
    IF o.kind = "text" THEN o.text ELSE Fallback(v)

\* the value getGenkitPromptFromFirestore resolves to, given the read's outcome
GetPrompt(v, o) ==
    IF o.kind = "text" /\ o.text # <<>> THEN o.text ELSE Fallback(v)

PromptId(f) ==
    CASE f = "architectFlow" -> "architect"
      [] f = "creatorFlow"   -> "creator"
      [] f = "architectTextFlow" -> "architect"
      [] f = "editorFlow" -> "editor"
      [] f = "searchAndAnswerFlow" -> "researcher"

----------------------------------------------------------------------------
(* Generation port *)

Plan(t, s) == [present |-> TRUE, title |-> t, steps |-> s]
NoPlan == [present |-> FALSE, title |-> <<>>, steps |-> <<>>]

Labels == {"component_request", "task_request", "approval_request", "general_chat"}

\* tokens a completion of the classifier's model call is made of
ClassifierTok == Labels \cup {"TASK_REQUEST", "deploy_request", "Sure: ", ".", " ", "\n"}

Completions == SeqsUpTo(ClassifierTok, MaxText)

Titles == {<<>>, <<"T">>}
StepTexts == {<<>>, <<"a">>, <<"b">>, <<"a", "\n", "b">>}

\* the values that conform to PlanSchema (z.string() and z.array(z.string())
\* admit the empty string and the empty array)
Plans == {Plan(t, s) : t \in Titles, s \in SeqsUpTo(StepTexts, MaxSteps)}

Drafts == {<<>>, <<"draft">>, <<" ", "draft", "\n">>}

GenThrows == [kind |-> "throws", text |-> <<>>, plan |-> NoPlan]
GenText(t) == [kind |-> "text", text |-> t, plan |-> NoPlan]
GenOutput(p) == [kind |-> "output", text |-> <<>>, plan |-> p]
\* response.output is null
GenNoOutput == [kind |-> "nooutput", text |-> <<>>, plan |-> NoPlan]
\* response.output is an object that does not conform to PlanSchema
GenMalformed == [kind |-> "malformed", text |-> <<>>, plan |-> NoPlan]

\* JSON documents a completion may carry, each one token
DocPlanAB == "{\"title\":\"T\",\"steps\":[\"a\",\"b\"]}"
DocPlanNoSteps == "{\"title\":\"T\",\"steps\":[]}"
DocMissingSteps == "{\"title\":\"T\"}"
DocMalformed == "{\"title\":\"T\",\"steps\":[\"a\""
\* what is left of a document whose last characters were sliced off
DocCut == "<document cut short>"

Docs == {DocPlanAB, DocPlanNoSteps, DocMissingSteps, DocMalformed}

\* the documents JSON.parse accepts
ValidJson == {DocPlanAB, DocPlanNoSteps, DocMissingSteps}

\* the value of a document JSON.parse accepts; NoPlan when it is no Plan shape
JsonValue(d) ==
    CASE d = DocPlanAB -> Plan(<<"T">>, << <<"a">>, <<"b">> >>)
      [] d = DocPlanNoSteps -> Plan(<<"T">>, <<>>)
      [] OTHER -> NoPlan

\* the seven characters that open a json code block, and the three that close it
FenceJson == "<3 backticks>json"
Fence == "<3 backticks>"

\* number of characters of a token
CharLen(tok) ==
    CASE tok = FenceJson -> 7
      [] tok = Fence -> 3
      [] tok = "<2 backticks>" -> 2
      [] tok \in {"<1 backtick>", " ", "\n"} -> 1
      [] OTHER -> 20

\* a token with its last k characters removed, 0 < k < CharLen(tok)
CutToken(tok, k) ==
    CASE tok = Fence /\ k = 1 -> "<2 backticks>"
      [] tok = Fence /\ k = 2 -> "<1 backtick>"
      [] tok = "<2 backticks>" /\ k = 1 -> "<1 backtick>"
      [] OTHER -> DocCut

RECURSIVE DropLastChars(_, _)
\* t.slice(0, -n)
DropLastChars(t, n) ==
    IF n = 0 \/ t = <<>> THEN t
    ELSE LET last == t[Len(t)]
             front == SubSeq(t, 1, Len(t) - 1)
         IN IF CharLen(last) <= n
            THEN DropLastChars(front, n - CharLen(last))
            ELSE Append(front, CutToken(last, n))

\* plan.startsWith(FenceJson)
StartsWithFenceJson(t) == t # <<>> /\ Head(t) = FenceJson

\* whether JSON.parse(t) returns (it skips surrounding whitespace)
JsonParses(t) == Len(Trim(t)) = 1 /\ Trim(t)[1] \in ValidJson

\* completions of the ARCE architect's model call: a document, bare or with
\* markers before and after it
FencePrefixes == {<<>>, <<FenceJson, "\n">>, <<Fence, "\n">>}
FenceSuffixes == {<<>>, <<"\n", Fence>>, <<"\n", Fence, "\n">>}
ArchitectTexts == {pre \o <<d>> \o suf :
                      pre \in FencePrefixes, d \in Docs, suf \in FenceSuffixes}

\* what the awaited ai.generate() can do, per flow
GenOutcomes(f) ==
    CASE f = "taskClassifierFlow" -> {GenThrows} \cup {GenText(t) : t \in Completions}
      [] f = "architectFlow" ->
            {GenThrows, GenNoOutput, GenMalformed} \cup {GenOutput(p) : p \in Plans}
      [] f = "architectTextFlow" -> {GenThrows} \cup {GenText(t) : t \in ArchitectTexts}
      [] OTHER -> {GenThrows} \cup {GenText(t) : t \in Drafts}

Msg(r, t) == [role |-> r, text |-> t]

NoSchema == "none"

\* temperature in tenths; structured-output schema requested, if any
Request(f, msgs, temp, schema) ==
    [flow |-> f, messages |-> msgs, temperature |-> temp, output |-> schema]

ClassifierSystemPrompt(v) ==
    IF v = "v4.1"
    THEN <<"You are a task classification expert. [component_request, task_request, approval_request, general_chat]">>
    ELSE <<"You are an expert task classifier. [component_request, task_request, general_chat]">>

\* the ai.generate() call of taskClassifierFlow
ClassifierRequest(v, userInput) ==
    Request("taskClassifierFlow",
            <<Msg("system", ClassifierSystemPrompt(v)),
              Msg("user", <<"User Request: \"">> \o userInput \o <<"\"">>)>>,
            0,
            IF v = "v4.1" THEN NoSchema ELSE "string")

\* the ai.generate() call of architectFlow: system: prompt, prompt: taskDescription
ArchitectRequest(prompt, taskDescription) ==
    Request("architectFlow",
            <<Msg("system", prompt), Msg("user", taskDescription)>>,
            0, "PlanSchema")

\* the ai.generate() call of creatorFlow
CreatorRequest(prompt, planAndResearch) ==
    Request("creatorFlow",
            <<Msg("system", prompt), Msg("user", planAndResearch)>>,
            5, NoSchema)

TempUnset == -1

\* a conversion that puts the newest turn first
ToMessagesNewestFirst(turns) ==
    [k \in 1..Len(turns) |->
        Msg(turns[Len(turns) + 1 - k].role, turns[Len(turns) + 1 - k].content)]

\* history.map(h => ({role: h.role, content: [{text: h.content}]}))
ToMessages(turns) == [k \in 1..Len(turns) |-> Msg(turns[k].role, turns[k].content)]

ComponentBuilderPrompt(v) ==
    IF v = "v4.1"
    THEN <<"You are an expert frontend developer. [single markdown code block]">>
    ELSE <<"You are an expert frontend developer specializing in React and TypeScript.">>

\* the ai.generate() call of a flow that fetched `prompt` for its input a
PromptRequest(f, prompt, a) ==
    CASE f = "architectFlow" -> ArchitectRequest(prompt, a)
      [] f = "creatorFlow" -> CreatorRequest(prompt, a)
      [] f = "editorFlow" ->
            Request(f, <<Msg("system", prompt), Msg("user", a)>>, 2, NoSchema)
      [] f = "searchAndAnswerFlow" ->
            Request(f, <<Msg("system", prompt), Msg("user", a)>>, TempUnset, NoSchema)
      [] f = "architectTextFlow" ->
            Request(f, <<Msg("system", prompt), Msg("user", a)>>, 0, NoSchema)

\* generalChatFlow: [...(context.history || []).map(...), {role: 'user', ...}]
GeneralChatMessages(h, latestMessage) ==
    ToMessages(h.turns) \o <<Msg("user", latestMessage)>>

\* projectManagerChatFlow: system: "...", messages: messages.map(...)
ProjectManagerMessages(h) ==
    <<Msg("system", <<"You are a helpful and concise project manager AI.">>)>>
    \o ToMessages(h.turns)

\* the ai.generate() call of a flow that has no stored prompt
DirectRequest(v, f, h, a) ==
    CASE f = "componentBuilderFlow" ->
            Request(f, <<Msg("system", ComponentBuilderPrompt(v)), Msg("user", a)>>,
                    TempUnset, NoSchema)
      [] f = "generalChatFlow" ->
            Request(f, GeneralChatMessages(h, a), TempUnset, NoSchema)
      [] f = "projectManagerChatFlow" ->
            Request(f, ProjectManagerMessages(h), 5, NoSchema)

----------------------------------------------------------------------------
(* Flow results *)

Ok(t, p) == [status |-> "ok", text |-> t, plan |-> p]
Fail == [status |-> "fail", text |-> <<>>, plan |-> NoPlan]
None == [status |-> "none", text |-> <<>>, plan |-> NoPlan]

\* the labels the validation of v5.3.1 lets through
Accepted53 == {<<"component_request">>, <<"task_request">>, <<"general_chat">>}

\* a classifier that picks the first label occurring anywhere in the completion
ClassifyBySubstring(v, text) ==
    IF \E l \in Accepted53 : Contains(text, l)
    THEN CHOOSE l \in Accepted53 : Contains(text, l)
    ELSE <<"general_chat">>

\* what taskClassifierFlow returns for the completion `text`
Classify(v, text) ==
    IF v = "v4.1"
    THEN Trim(text)
    ELSE IF text \in Accepted53 THEN text ELSE <<"general_chat">>

\* what architectFlow does with the model's response
ArchitectResult(o) ==
    CASE o.kind = "throws"    -> Fail
      [] o.kind = "nooutput"  -> Fail
      [] o.kind = "malformed" -> Fail
      [] o.kind = "output"    -> Ok(<<>>, o.plan)

\* what creatorFlow does with the model's response
CreatorResult(o) ==
    IF o.kind = "throws" THEN Fail ELSE Ok(o.text, NoPlan)

\* editorFlow, searchAndAnswerFlow, componentBuilderFlow, generalChatFlow:
\* return response.text
TextResult(o) ==
    IF o.kind = "throws" THEN Fail ELSE Ok(o.text, NoPlan)

\* a projectManagerChatFlow whose catch block answers instead of rethrowing
ChatResultSwallows(o) ==
    IF o.kind = "throws" \/ o.text = <<>>
    THEN Ok(<<"Sorry, something went wrong.">>, NoPlan)
    ELSE Ok(o.text, NoPlan)

\* projectManagerChatFlow: an empty responseText throws, the catch rethrows
ChatResult(o) ==
    IF o.kind = "throws" \/ o.text = <<>> THEN Fail ELSE Ok(o.text, NoPlan)

\* the ARCE architectFlow: strip the fence, JSON.parse, return the text
ArchitectTextResult(o) ==
    IF o.kind = "throws" THEN Fail
    ELSE LET stripped == IF StartsWithFenceJson(o.text)
                         THEN Trim(DropLastChars(Tail(o.text), 3))
                         ELSE o.text
         IN IF JsonParses(stripped) THEN Ok(stripped, NoPlan) ELSE Fail

----------------------------------------------------------------------------
(* taskExecutionFlow: rendering of the plan *)

NL == "\n"
Indent == "      "

\* a rendering that numbers the steps from 0
RenderStepFromZero(index, step) == NatToStr(index) \o <<". ">> \o step

\* `${index + 1}. ${step}`, index being the 0-based array index
RenderStep(index, step) == NatToStr(index + 1) \o <<". ">> \o step

\* plan.steps.map((step, index) => ...)
RenderSteps(steps) == [k \in 1..Len(steps) |-> RenderStep(k - 1, steps[k])]

\* the template literal creatorInput
Render(v, p) ==
    <<NL, Indent, "Please write a document based on the following plan.",
      NL, Indent, "Ensure the final output is well-structured and comprehensive.">>
    \o (IF v = "v5.2.0" THEN <<NL>> ELSE <<>>)
    \o <<NL, Indent, "Title: ">> \o p.title
    \o (IF v = "v5.2.0" THEN <<NL>> ELSE <<>>)
    \o <<NL, Indent, "Steps:", NL, Indent>>
    \o Join(RenderSteps(p.steps), <<NL>>)
    \o <<NL, "    ">>

----------------------------------------------------------------------------
(* Requests served concurrently: each flow invocation is an async function   *)
(* with its own locals; the module-level bindings are the db and ai handles  *)

\* the documents of genkit_prompts: "architect" is stored, "creator" is not
PromptStore ==
    [id \in {"architect", "creator"} |->
        IF id = "architect" THEN [kind |-> "text", text |-> <<"stored persona">>]
        ELSE [kind |-> "missing", text |-> <<>>]]

ReqIds == {"r1", "r2"}

\* the locals of one flow invocation, with the port responses it received
\* (reads, gens), the model requests it sent, and whether its pending model
\* call never settles
IdleReq ==
    [flow |-> "none", input |-> <<>>, cur |-> "none", arg |-> <<>>, pc |-> "idle",
     cstate |-> "NA", plan |-> NoPlan, ret |-> None, result |-> None,
     reads |-> <<>>, sent |-> <<>>, gens |-> <<>>, hung |-> FALSE]

\* the flow function is entered with its input
ReqInvoked(f, inp) ==
    [IdleReq EXCEPT !.flow = f, !.input = inp, !.cur = f, !.arg = inp, !.pc = "start",
                    !.cstate = IF f = "taskExecutionFlow" THEN "START" ELSE "NA"]

\* the body of r.cur runs up to its first await
ReqBegun(r) ==
    IF r.cur = "taskExecutionFlow"
    THEN [r EXCEPT !.cstate = "ARCHITECT_CALLED", !.cur = "architectFlow",
                   !.arg = r.input]
    ELSE [r EXCEPT !.pc = "fetch"]

\* docRef.get() settled with o
ReqFetched(v, r, o) ==
    [r EXCEPT !.reads = Append(r.reads, o),
              !.sent = Append(r.sent, PromptRequest(r.cur, GetPrompt(v, o), r.arg)),
              !.pc = "gen"]

\* the flow body r.cur ends with res
ReqCompleted(r, res) ==
    IF r.cur = r.flow
    THEN [r EXCEPT !.result = res, !.pc = "done"]
    ELSE [r EXCEPT !.ret = res, !.pc = "returned", !.cur = r.flow]

\* ai.generate() settled with o
ReqGenerated(r, o) ==
    ReqCompleted([r EXCEPT !.gens = Append(r.gens, o)],
                 IF r.cur = "architectFlow" THEN ArchitectResult(o)
                 ELSE CreatorResult(o))

----------------------------------------------------------------------------
(* Initial state *)

Init ==
    /\ version \in Versions
    /\ flow = "none"
    /\ input = <<>>
    /\ history = NoHistory
    /\ cur = "none"
    /\ arg = <<>>
    /\ pc = "idle"
    /\ cstate = "NA"
    /\ plan = NoPlan
    /\ ret = None
    /\ result = None
    /\ storeLog = <<>>
    /\ storeResp = <<>>
    /\ genLog = <<>>
    /\ genResp = <<>>
    /\ trace = <<>>
    /\ store = PromptStore
    /\ reqs = [i \in ReqIds |-> IdleReq]

Event(f, e) == [flow |-> f, ev |-> e]

\* the running flow body ends with r: the caller of the request gets it, or,
\* inside taskExecutionFlow, the awaiting conductor does
Complete(r) ==
    IF cur = flow
    THEN /\ result' = r
         /\ pc' = "done"
         /\ UNCHANGED <<ret, trace, cur>>
    ELSE /\ ret' = r
         /\ pc' = "returned"
         /\ cur' = flow
         /\ trace' = Append(trace, Event(cur, IF r.status = "ok" THEN "returned" ELSE "failed"))
         /\ UNCHANGED result

----------------------------------------------------------------------------
(* Actions *)

\* the transport hands one request to a flow of the deployed version
Invoke(f, inp) ==
    /\ pc = "idle"
    /\ f \in FlowsOf(version) \ ChatFlows
    /\ flow' = f
    /\ input' = inp
    /\ cur' = f
    /\ arg' = inp
    /\ pc' = "start"
    /\ cstate' = IF f = "taskExecutionFlow" THEN "START" ELSE "NA"
    /\ history' = NoHistory
    /\ UNCHANGED <<store, reqs, version, plan, ret, result, storeLog, storeResp, genLog, genResp, trace>>

\* the transport hands a request with a chat history to a chat flow:
\* projectManagerChatFlow takes the history alone, generalChatFlow takes
\* {latestMessage, history?}
InvokeChat(f, h, inp) ==
    /\ pc = "idle"
    /\ f \in FlowsOf(version) \cap ChatFlows
    /\ f = "projectManagerChatFlow" => (h.given /\ inp = <<>>)
    /\ f = "generalChatFlow" => inp # <<>>
    /\ flow' = f
    /\ input' = inp
    /\ history' = h
    /\ cur' = f
    /\ arg' = inp
    /\ pc' = "start"
    /\ cstate' = "NA"
    /\ UNCHANGED <<store, reqs, version, plan, ret, result, storeLog, storeResp, genLog, genResp, trace>>

\* a flow without a stored prompt, up to its await of ai.generate()
DirectCall ==
    /\ pc = "start"
    /\ cur \in DirectFlows
    /\ genLog' = Append(genLog, DirectRequest(version, cur, history, arg))
    /\ pc' = "gen"
    /\ UNCHANGED <<store, reqs, version, flow, input, history, cur, arg, cstate, plan, ret, result,
                   storeLog, storeResp, genResp, trace>>

\* a flow that returns response.text, after ai.generate() settled with o
TextResume(o) ==
    /\ pc = "gen"
    /\ cur \in TextFlows
    /\ genResp' = Append(genResp, o)
    /\ Complete(TextResult(o))
    /\ UNCHANGED <<store, reqs, version, flow, input, history, arg, cstate, plan, storeLog, storeResp, genLog>>

\* projectManagerChatFlow after ai.generate() settled with o
ChatResume(o) ==
    /\ pc = "gen"
    /\ cur = "projectManagerChatFlow"
    /\ genResp' = Append(genResp, o)
    /\ Complete(ChatResult(o))
    /\ UNCHANGED <<store, reqs, version, flow, input, history, arg, cstate, plan, storeLog, storeResp, genLog>>

\* the ARCE architectFlow after ai.generate() settled with o
ArchitectTextResume(o) ==
    /\ pc = "gen"
    /\ cur = "architectTextFlow"
    /\ genResp' = Append(genResp, o)
    /\ Complete(ArchitectTextResult(o))
    /\ UNCHANGED <<store, reqs, version, flow, input, history, arg, cstate, plan, storeLog, storeResp, genLog>>

\* taskClassifierFlow up to its await of ai.generate()
ClassifierCall ==
    /\ pc = "start"
    /\ cur = "taskClassifierFlow"
    /\ genLog' = Append(genLog, ClassifierRequest(version, arg))
    /\ pc' = "gen"
    /\ UNCHANGED <<store, reqs, version, flow, input, history, cur, arg, cstate, plan, ret, result,
                   storeLog, storeResp, genResp, trace>>

\* taskClassifierFlow after ai.generate() settled with o
ClassifierResume(o) ==
    /\ pc = "gen"
    /\ cur = "taskClassifierFlow"
    /\ genResp' = Append(genResp, o)
    /\ Complete(IF o.kind = "throws" THEN Fail ELSE Ok(Classify(version, o.text), NoPlan))
    /\ UNCHANGED <<store, reqs, version, flow, input, history, arg, cstate, plan, storeLog, storeResp, genLog>>

\* architectFlow / creatorFlow up to docRef.get() in getGenkitPromptFromFirestore
FetchPrompt ==
    /\ pc = "start"
    /\ cur \in PromptFlows
    /\ storeLog' = Append(storeLog, PromptId(cur))
    /\ pc' = "fetch"
    /\ UNCHANGED <<store, reqs, version, flow, input, history, cur, arg, cstate, plan, ret, result,
                   storeResp, genLog, genResp, trace>>

\* a getGenkitPromptFromFirestore without its catch block: a failed lookup
\* rejects the flow
PromptResolvedPropagates(o) ==
    /\ pc = "fetch"
    /\ storeResp' = Append(storeResp, o)
    /\ IF o.kind = "text" /\ o.text # <<>>
       THEN /\ genLog' = Append(genLog, PromptRequest(cur, o.text, arg))
            /\ pc' = "gen"
            /\ UNCHANGED <<cur, ret, result, trace>>
       ELSE /\ Complete(Fail)
            /\ UNCHANGED genLog
    /\ UNCHANGED <<store, reqs, version, flow, input, history, arg, cstate, plan, storeLog, genResp>>

\* docRef.get() settled with o: getGenkitPromptFromFirestore resolves and the
\* flow goes on to its await of ai.generate()
PromptResolved(o) ==
    /\ pc = "fetch"
    /\ storeResp' = Append(storeResp, o)
    /\ genLog' = Append(genLog, PromptRequest(cur, GetPrompt(version, o), arg))
    /\ pc' = "gen"
    /\ UNCHANGED <<store, reqs, version, flow, input, history, cur, arg, cstate, plan, ret, result,
                   storeLog, genResp, trace>>

\* architectFlow after ai.generate() settled with o
ArchitectResume(o) ==
    /\ pc = "gen"
    /\ cur = "architectFlow"
    /\ genResp' = Append(genResp, o)
    /\ Complete(ArchitectResult(o))
    /\ UNCHANGED <<store, reqs, version, flow, input, history, arg, cstate, plan, storeLog, storeResp, genLog>>

\* creatorFlow after ai.generate() settled with o
CreatorResume(o) ==
    /\ pc = "gen"
    /\ cur = "creatorFlow"
    /\ genResp' = Append(genResp, o)
    /\ Complete(CreatorResult(o))
    /\ UNCHANGED <<store, reqs, version, flow, input, history, arg, cstate, plan, storeLog, storeResp, genLog>>

\* taskExecutionFlow: await architectFlow(taskDescription)
ConductorCallArchitect ==
    /\ pc = "start"
    /\ cur = "taskExecutionFlow"
    /\ cstate = "START"
    /\ cstate' = "ARCHITECT_CALLED"
    /\ cur' = "architectFlow"
    /\ arg' = input
    /\ trace' = Append(trace, Event("architectFlow", "invoked"))
    /\ UNCHANGED <<store, reqs, version, flow, input, history, pc, plan, ret, result,
                   storeLog, storeResp, genLog, genResp>>

\* a conductor that calls architectFlow again when it rejected
ConductorAfterArchitectRetry ==
    /\ pc = "returned"
    /\ cur = "taskExecutionFlow"
    /\ cstate = "ARCHITECT_CALLED"
    /\ IF ret.status = "ok"
       THEN /\ plan' = ret.plan
            /\ cstate' = "CREATOR_CALLED"
            /\ cur' = "creatorFlow"
            /\ arg' = Render(version, ret.plan)
            /\ pc' = "start"
            /\ trace' = Append(trace, Event("creatorFlow", "invoked"))
            /\ UNCHANGED result
       ELSE IF Len(trace) < 4
       THEN /\ cur' = "architectFlow"
            /\ pc' = "start"
            /\ trace' = Append(trace, Event("architectFlow", "invoked"))
            /\ UNCHANGED <<plan, cstate, arg, result>>
       ELSE /\ cstate' = "FAILED"
            /\ result' = Fail
            /\ pc' = "done"
            /\ UNCHANGED <<plan, cur, arg, trace>>
    /\ UNCHANGED <<store, reqs, version, flow, input, history, ret, storeLog, storeResp, genLog, genResp>>

\* a conductor that goes on with an empty plan when architectFlow rejected
ConductorAfterArchitectDefaultPlan ==
    /\ pc = "returned"
    /\ cur = "taskExecutionFlow"
    /\ cstate = "ARCHITECT_CALLED"
    /\ plan' = IF ret.status = "ok" THEN ret.plan ELSE Plan(<<>>, <<>>)
    /\ cstate' = "CREATOR_CALLED"
    /\ cur' = "creatorFlow"
    /\ arg' = Render(version, plan')
    /\ pc' = "start"
    /\ trace' = Append(trace, Event("creatorFlow", "invoked"))
    /\ UNCHANGED <<store, reqs, version, flow, input, history, ret, result, storeLog, storeResp, genLog, genResp>>

\* taskExecutionFlow resumes from `await architectFlow(...)`: a rejection
\* rejects the conductor; a plan is rendered and handed to creatorFlow
ConductorAfterArchitect ==
    /\ pc = "returned"
    /\ cur = "taskExecutionFlow"
    /\ cstate = "ARCHITECT_CALLED"
    /\ IF ret.status = "ok"
       THEN /\ plan' = ret.plan
            /\ cstate' = "CREATOR_CALLED"
            /\ cur' = "creatorFlow"
            /\ arg' = Render(version, ret.plan)
            /\ pc' = "start"
            /\ trace' = Append(trace, Event("creatorFlow", "invoked"))
            /\ UNCHANGED result
       ELSE /\ cstate' = "FAILED"
            /\ result' = Fail
            /\ pc' = "done"
            /\ UNCHANGED <<plan, cur, arg, trace>>
    /\ UNCHANGED <<store, reqs, version, flow, input, history, ret, storeLog, storeResp, genLog, genResp>>

\* a conductor that tidies the draft before returning it
ConductorReturnTrimmed(draft) == Trim(draft)

\* what taskExecutionFlow returns, given the draft creatorFlow resolved to
ConductorReturn(draft) == draft

\* a conductor that calls creatorFlow again when it rejected
ConductorAfterCreatorRetry ==
    /\ pc = "returned"
    /\ cur = "taskExecutionFlow"
    /\ cstate = "CREATOR_CALLED"
    /\ IF ret.status = "ok"
       THEN /\ cstate' = "DONE"
            /\ result' = Ok(ConductorReturn(ret.text), NoPlan)
            /\ pc' = "done"
            /\ UNCHANGED <<cur, trace>>
       ELSE IF Len(trace) < 6
       THEN /\ cur' = "creatorFlow"
            /\ pc' = "start"
            /\ trace' = Append(trace, Event("creatorFlow", "invoked"))
            /\ UNCHANGED <<cstate, result>>
       ELSE /\ cstate' = "FAILED"
            /\ result' = Fail
            /\ pc' = "done"
            /\ UNCHANGED <<cur, trace>>
    /\ UNCHANGED <<store, reqs, version, flow, input, history, arg, plan, ret,
                   storeLog, storeResp, genLog, genResp>>

\* taskExecutionFlow resumes from `await creatorFlow(creatorInput)`
ConductorAfterCreator ==
    /\ pc = "returned"
    /\ cur = "taskExecutionFlow"
    /\ cstate = "CREATOR_CALLED"
    /\ IF ret.status = "ok"
       THEN /\ cstate' = "DONE"
            /\ result' = Ok(ConductorReturn(ret.text), NoPlan)
       ELSE /\ cstate' = "FAILED"
            /\ result' = Fail
    /\ pc' = "done"
    /\ UNCHANGED <<store, reqs, version, flow, input, history, cur, arg, plan, ret,
                   storeLog, storeResp, genLog, genResp, trace>>

Next ==
    \/ /\ pc = "idle"
       /\ \E f \in FlowsOf(version), inp \in Inputs : Invoke(f, inp)
    \/ /\ pc = "idle"
       /\ \E f \in FlowsOf(version) \cap ChatFlows, h \in Histories,
             inp \in Inputs \cup {<<>>} : InvokeChat(f, h, inp)
    \/ DirectCall
    \/ /\ pc = "gen" /\ cur \in TextFlows
       /\ \E o \in GenOutcomes(cur) : TextResume(o)
    \/ /\ pc = "gen" /\ cur = "projectManagerChatFlow"
       /\ \E o \in GenOutcomes(cur) : ChatResume(o)
    \/ /\ pc = "gen" /\ cur = "architectTextFlow"
       /\ \E o \in GenOutcomes(cur) : ArchitectTextResume(o)
    \/ ClassifierCall
    \/ /\ pc = "gen" /\ cur = "taskClassifierFlow"
       /\ \E o \in GenOutcomes("taskClassifierFlow") : ClassifierResume(o)
    \/ FetchPrompt
    \/ /\ pc = "fetch"
       /\ \E o \in StoreOutcomes : PromptResolved(o)
    \/ /\ pc = "gen" /\ cur = "architectFlow"
       /\ \E o \in GenOutcomes("architectFlow") : ArchitectResume(o)
    \/ /\ pc = "gen" /\ cur = "creatorFlow"
       /\ \E o \in GenOutcomes("creatorFlow") : CreatorResume(o)
    \/ ConductorCallArchitect
    \/ ConductorAfterArchitect
    \/ ConductorAfterCreator

Spec == Init /\ [][Next]_vars

\* One taskExecutionFlow request on a draft that has the flow.  Termination does
\* not depend on what the plan says, so the Architect's model call answers from
\* a few fixed plans.
ConductorInit == Init /\ version \in {"v5.2.0", "v5.3.1"}

ConductorPlans ==
    {Plan(<<"T">>, << <<"a">>, <<"b">> >>), Plan(<<"T">>, << <<"a">> >>),
     Plan(<<>>, <<>>)}

ConductorNext ==
    \/ /\ pc = "idle"
       /\ \E inp \in Inputs : Invoke("taskExecutionFlow", inp)
    \/ ConductorCallArchitect
    \/ FetchPrompt
    \/ /\ pc = "fetch"
       /\ \E o \in StoreOutcomes : PromptResolved(o)
    \/ /\ pc = "gen" /\ cur = "architectFlow"
       /\ \E o \in {GenThrows, GenNoOutput, GenMalformed}
                     \cup {GenOutput(p) : p \in ConductorPlans} : ArchitectResume(o)
    \/ /\ pc = "gen" /\ cur = "creatorFlow"
       /\ \E o \in GenOutcomes("creatorFlow") : CreatorResume(o)
    \/ ConductorAfterArchitect
    \/ ConductorAfterCreator

\* a conductor whose `plan` is one binding shared by all invocations: it reads
\* the plan another request stored
PlanOfAnyRequest(rs, i) ==
    IF \E j \in ReqIds \ {i} : rs[j].plan.present
    THEN rs[CHOOSE j \in ReqIds \ {i} : rs[j].plan.present].plan
    ELSE rs[i].ret.plan

\* `const plan = await architectFlow(taskDescription)`: a local of invocation i
PlanOfRequest(rs, i) == rs[i].ret.plan

\* taskExecutionFlow resumes from one of its two awaits
ReqResumed(v, rs, i) ==
    LET r == rs[i] IN
    IF r.cstate = "ARCHITECT_CALLED"
    THEN IF r.ret.status = "ok"
         THEN [r EXCEPT !.plan = r.ret.plan, !.cstate = "CREATOR_CALLED",
                        !.cur = "creatorFlow",
                        !.arg = Render(v, PlanOfRequest(rs, i)), !.pc = "start"]
         ELSE [r EXCEPT !.cstate = "FAILED", !.result = Fail, !.pc = "done"]
    ELSE IF r.ret.status = "ok"
         THEN [r EXCEPT !.cstate = "DONE",
                        !.result = Ok(ConductorReturn(r.ret.text), NoPlan),
                        !.pc = "done"]
         ELSE [r EXCEPT !.cstate = "FAILED", !.result = Fail, !.pc = "done"]

single == <<version, flow, input, history, cur, arg, pc, cstate, plan, ret, result,
            storeLog, storeResp, genLog, genResp, trace>>

\* each caller sends its own text
ConcInput(i) == <<"task of ", i>>

ConcInvoke(i, f) ==
    /\ reqs[i].pc = "idle"
    /\ f \in {"taskExecutionFlow", "creatorFlow"}
    /\ reqs' = [reqs EXCEPT ![i] = ReqInvoked(f, ConcInput(i))]
    /\ UNCHANGED <<store, single>>

ConcBegin(i) ==
    /\ reqs[i].pc = "start"
    /\ reqs' = [reqs EXCEPT ![i] = ReqBegun(reqs[i])]
    /\ UNCHANGED <<store, single>>

\* the read of request i settles: with the stored document, or it throws
ConcFetched(i, o) ==
    /\ reqs[i].pc = "fetch"
    /\ o \in {store[PromptId(reqs[i].cur)], [kind |-> "throws", text |-> <<>>]}
    /\ reqs' = [reqs EXCEPT ![i] = ReqFetched(version, reqs[i], o)]
    /\ UNCHANGED <<store, single>>

\* the model call of request i will never settle
ConcHang(i) ==
    /\ reqs[i].pc = "gen"
    /\ ~reqs[i].hung
    /\ reqs' = [reqs EXCEPT ![i].hung = TRUE]
    /\ UNCHANGED <<store, single>>

ConcArchitectOutcomes ==
    {GenThrows, GenOutput(Plan(<<"T">>, << <<"a">>, <<"b">> >>)),
     GenOutput(Plan(<<"U">>, << <<"c">> >>))}
ConcCreatorOutcomes == {GenThrows, GenText(<<"draft">>), GenText(<<"other draft">>)}

\* the model call of request i settles with o
ConcGenerated(i, o) ==
    /\ reqs[i].pc = "gen"
    /\ ~reqs[i].hung
    /\ o \in (IF reqs[i].cur = "architectFlow" THEN ConcArchitectOutcomes
              ELSE ConcCreatorOutcomes)
    /\ reqs' = [reqs EXCEPT ![i] = ReqGenerated(reqs[i], o)]
    /\ UNCHANGED <<store, single>>

ConcResume(i) ==
    /\ reqs[i].pc = "returned"
    /\ reqs' = [reqs EXCEPT ![i] = ReqResumed(version, reqs, i)]
    /\ UNCHANGED <<store, single>>

\* a step of request i other than its model call hanging
ConcAdvance(i) ==
    \/ ConcBegin(i)
    \/ \E o \in StoreOutcomes : ConcFetched(i, o)
    \/ \E o \in ConcArchitectOutcomes \cup ConcCreatorOutcomes : ConcGenerated(i, o)
    \/ ConcResume(i)

ConcInit == Init /\ version = "v5.3.1"

ConcNext ==
    \E i \in ReqIds :
        \/ \E f \in {"taskExecutionFlow", "creatorFlow"} : ConcInvoke(i, f)
        \/ ConcBegin(i)
        \/ \E o \in StoreOutcomes : ConcFetched(i, o)
        \/ ConcHang(i)
        \/ \E o \in ConcArchitectOutcomes \cup ConcCreatorOutcomes : ConcGenerated(i, o)
        \/ ConcResume(i)

\* requests of several callers interleaved at their await points
ConcSpec == ConcInit /\ [][ConcNext]_vars

\* every awaited port call settles and the event loop runs every continuation
FairConductorSpec ==
    ConductorInit /\ [][ConductorNext]_vars /\ WF_vars(ConductorNext)

----------------------------------------------------------------------------
(* Classifier properties *)

\* the closed label set, as texts
ClosedSet == {<<l>> : l \in Labels}

\* a taskClassifierFlow invocation has ended; Completion is what the model said
ClassifierEnded == flow = "taskClassifierFlow" /\ pc = "done"
Completion == genResp[1].text

\* C1: every successful taskClassifierFlow invocation returns a member of
\* {component_request, task_request, approval_request, general_chat},
\* whatever text the model produced.
C1_ClassifierClosure ==
    (ClassifierEnded /\ result.status = "ok") => result.text \in ClosedSet

\* C2: when the model's completion is exactly one of the four labels,
\* taskClassifierFlow returns that same label.
C2_ExactLabelReturned ==
    (ClassifierEnded /\ genResp[1].kind = "text" /\ Completion \in ClosedSet)
        => result = Ok(Completion, NoPlan)

\* C3: a completion that is a label with only whitespace before or after it
\* yields that label (the text is trimmed before the comparison).
C3_TrimmedBeforeCompare ==
    (/\ ClassifierEnded
     /\ genResp[1].kind = "text"
     /\ Completion # Trim(Completion)
     /\ Trim(Completion) \in ClosedSet)
        => result = Ok(Trim(Completion), NoPlan)

----------------------------------------------------------------------------
(* Conductor properties *)

IsPrefix(a, b) == Len(a) <= Len(b) /\ SubSeq(b, 1, Len(a)) = a

ConductorRun == flow = "taskExecutionFlow"

\* the complete runs of a conductor invocation
RunArchitectFails ==
    <<Event("architectFlow", "invoked"), Event("architectFlow", "failed")>>
RunCreatorFails ==
    <<Event("architectFlow", "invoked"), Event("architectFlow", "returned"),
      Event("creatorFlow", "invoked"), Event("creatorFlow", "failed")>>
RunSucceeds ==
    <<Event("architectFlow", "invoked"), Event("architectFlow", "returned"),
      Event("creatorFlow", "invoked"), Event("creatorFlow", "returned")>>

\* how many model calls flow f has issued
GenCalls(f) == Cardinality({k \in 1..Len(genLog) : genLog[k].flow = f})

\* C5: a conductor run goes START, Architect invoked, Creator invoked, DONE:
\* Creator is invoked only after Architect returned a plan, each of the two is
\* invoked at most once and never again after a failure, and DONE is reached
\* only after Creator returned.
C5_ConductorOrder ==
    ConductorRun =>
        /\ \/ IsPrefix(trace, RunArchitectFails)
           \/ IsPrefix(trace, RunCreatorFails)
           \/ IsPrefix(trace, RunSucceeds)
        /\ GenCalls("architectFlow") <= 1
        /\ GenCalls("creatorFlow") <= 1
        /\ GenCalls("creatorFlow") = 1 =>
              (Len(genResp) >= 1 /\ genResp[1].kind = "output")
        /\ cstate = "START" => trace = <<>>
        /\ cstate = "ARCHITECT_CALLED" => Len(trace) \in {1, 2}
        /\ cstate = "CREATOR_CALLED" => Len(trace) \in {3, 4}
        /\ cstate = "DONE" => trace = RunSucceeds
        /\ cstate = "FAILED" => trace \in {RunArchitectFails, RunCreatorFails}

C5_Witness ==
    ConductorRun /\ cstate = "DONE" /\ trace = RunSucceeds /\ GenCalls("creatorFlow") = 1

\* C6: when the Architect step fails (the model call fails, or there is no
\* valid plan object) the conductor ends in failure, never invokes Creator
\* and returns no text.
C6_ArchitectFailureIsFatal ==
    (ConductorRun /\ Len(genResp) >= 1 /\ genResp[1].kind # "output") =>
        /\ cstate \in {"ARCHITECT_CALLED", "FAILED"}
        /\ \A k \in 1..Len(trace) : trace[k].flow # "creatorFlow"
        /\ GenCalls("creatorFlow") = 0
        /\ \A k \in 1..Len(storeLog) : storeLog[k] # "creator"
        /\ result.status # "ok"
        /\ plan = NoPlan
        /\ pc = "done" => (result = Fail /\ cstate = "FAILED")
        /\ pc # "done" => (pc = "returned" /\ ret = Fail)

C6_Witness ==
    /\ ConductorRun
    /\ pc = "done"
    /\ genResp = <<GenNoOutput>>
    /\ result = Fail
    /\ cstate = "FAILED"

\* the i-th list item the claim expects for the steps s
ExpectedItem(s, i) == NatToStr(i) \o <<". ">> \o s[i]

RECURSIVE ItemPos(_, _, _)
\* where item i starts when item 1 starts at p1 and the items are one per line
ItemPos(s, p1, i) ==
    IF i = 1 THEN p1
    ELSE ItemPos(s, p1, i - 1) + Len(ExpectedItem(s, i - 1)) + 1

\* C7: the text the conductor passes to Creator holds the plan title and then,
\* after the "Steps:" line, every step as "<i>. <step>" with i from 1, one per
\* line, in the plan's order, none dropped, duplicated or reordered.
C7_RenderedPlan ==
    (ConductorRun /\ plan.present) =>
        LET t == arg
            s == plan.steps
            n == Len(s)
        IN \E tp \in 1..Len(t), p1 \in 1..(Len(t) + 1) :
              /\ OccursAt(<<"Title: ">> \o plan.title, t, tp)
              /\ tp + Len(plan.title) < p1
              /\ OccursAt(<<"Steps:", "\n", Indent>>, t, p1 - 3)
              /\ \A i \in 1..n : OccursAt(ExpectedItem(s, i), t, ItemPos(s, p1, i))
              /\ \A i \in 1..(n - 1) : t[ItemPos(s, p1, i + 1) - 1] = "\n"
              /\ LET end == IF n = 0 THEN p1
                            ELSE ItemPos(s, p1, n) + Len(ExpectedItem(s, n))
                 IN end = Len(t) - 1 /\ t[end] = "\n"

C7_Witness ==
    /\ ConductorRun
    /\ cstate = "CREATOR_CALLED"
    /\ plan = Plan(<<"T">>, << <<"a">>, <<"b">> >>)
    /\ Contains(arg, <<"Title: ", "T">>)
    /\ Contains(arg, <<"1", ". ", "a", "\n", "2", ". ", "b">>)

\* C8: when taskExecutionFlow succeeds its result is exactly the text its
\* Creator call returned, and neither the plan nor the rendered Creator input
\* is part of it.
C8_DraftVerbatim ==
    (ConductorRun /\ result.status = "ok") =>
        /\ cstate = "DONE"
        /\ ret.status = "ok"
        /\ result.text = ret.text
        /\ result.text = genResp[2].text
        /\ result.plan = NoPlan
        /\ result.text # arg

C8_Witness ==
    /\ ConductorRun
    /\ result = Ok(<<" ", "draft", "\n">>, NoPlan)
    /\ genResp[2] = GenText(<<" ", "draft", "\n">>)

----------------------------------------------------------------------------
(* Prompt store properties *)

LookupFailed(o) == ~(o.kind = "text" /\ o.text # <<>>)

\* the system prompt the k-th lookup resolved to, as handed to ai.generate()
PromptOf(k) == genLog[k].messages[1].text

FallbackStrings ==
    {<<"You are a helpful assistant.">>,
     <<"You are a helpful assistant. Your primary prompt failed to load.">>}

PromptFlow == flow \in {"architectFlow", "creatorFlow", "taskExecutionFlow"}

\* C9: getGenkitPromptFromFirestore never fails: it resolves to the stored text
\* when the record exists with non-empty text, and to one fixed fallback string
\* when the record is missing, its text is empty or the read throws; each call
\* reads the store once, with no retry.
C9_PromptFallback ==
    PromptFlow =>
        /\ Len(genLog) = Len(storeResp)
        /\ Len(storeLog) - Len(storeResp) = (IF pc = "fetch" THEN 1 ELSE 0)
        /\ Len(storeLog) <= 2
        /\ \A k \in 1..Len(storeResp) :
              IF LookupFailed(storeResp[k])
              THEN PromptOf(k) \in FallbackStrings
              ELSE PromptOf(k) = storeResp[k].text
        /\ \A j, k \in 1..Len(storeResp) :
              (LookupFailed(storeResp[j]) /\ LookupFailed(storeResp[k]))
                  => PromptOf(j) = PromptOf(k)
        /\ pc = "fetch" => result = None

C9_Witness ==
    /\ PromptFlow
    /\ Len(storeResp) = 2
    /\ storeResp[1] = [kind |-> "text", text |-> <<>>]
    /\ storeResp[2] = [kind |-> "text", text |-> <<"stored persona">>]
    /\ PromptOf(1) \in FallbackStrings
    /\ PromptOf(2) = <<"stored persona">>

\* the outcome of the architectFlow body that ran in this request, once known
ArchitectEnded ==
    IF flow = "architectFlow" THEN pc = "done" ELSE Len(trace) >= 2
ArchitectOutcome ==
    IF flow = "architectFlow" THEN result
    ELSE IF trace[2].ev = "returned"
         THEN Ok(<<>>, IF cstate = "ARCHITECT_CALLED" THEN ret.plan ELSE plan)
         ELSE Fail

\* C10: when the lookup of prompt "architect" fails or yields empty text,
\* architectFlow still calls the model exactly once, with the fallback string as
\* system prompt and the task description as user prompt, and the flow's outcome
\* is then the outcome of that call alone.
C10_ArchitectFallback ==
    (/\ flow \in {"architectFlow", "taskExecutionFlow"}
     /\ Len(storeResp) >= 1
     /\ LookupFailed(storeResp[1])) =>
        /\ storeLog[1] = "architect"
        /\ GenCalls("architectFlow") = 1
        /\ genLog[1].flow = "architectFlow"
        /\ genLog[1].messages =
              <<Msg("system", Fallback(version)), Msg("user", input)>>
        /\ (pc = "gen" /\ Len(genResp) = 0) => result = None
        /\ Len(genResp) >= 1 =>
              /\ ArchitectEnded
              /\ ArchitectOutcome =
                    (IF genResp[1].kind = "output"
                     THEN Ok(<<>>, genResp[1].plan) ELSE Fail)

C10_Witness ==
    /\ flow = "taskExecutionFlow"
    /\ cstate = "DONE"
    /\ storeResp[1] = [kind |-> "throws", text |-> <<>>]
    /\ genLog[1].messages[1] = Msg("system", Fallback(version))
    /\ genLog[1].messages[2] = Msg("user", input)

----------------------------------------------------------------------------
(* Architect properties *)

\* C11: whenever architectFlow succeeds its Plan has a non-empty title and at
\* least one step, every step non-empty; a result with an empty title, empty
\* steps or wrongly typed fields fails the flow and is never returned.
C11_PlanWellFormed ==
    (flow = "architectFlow" /\ pc = "done") =>
        /\ result.status = "ok" =>
              /\ result.plan.present
              /\ result.plan.title # <<>>
              /\ Len(result.plan.steps) >= 1
              /\ \A i \in 1..Len(result.plan.steps) : result.plan.steps[i] # <<>>
        /\ genResp[1].kind \in {"nooutput", "malformed"} => result = Fail


\* an invocation of the ARCE architectFlow has ended and the model had
\* answered with text
ArchitectTextEnded ==
    flow = "architectTextFlow" /\ pc = "done" /\ genResp[1].kind = "text"

\* the JSON document inside a completion
DocOf(t) == CHOOSE d \in Docs : \E i \in 1..Len(t) : t[i] = d

\* the completion is a bare document, or one between an opening and a closing
\* fence marker
BareOrFenced(t) ==
    \/ t = <<DocOf(t)>>
    \/ t = <<FenceJson, "\n", DocOf(t), "\n", Fence>>

\* C12: from model text, Architect strips a leading and a trailing fence marker
\* if present and parses the rest: a well-formed Plan-shaped JSON text, fenced
\* or not, gives the encoded Plan; malformed JSON and JSON without steps make
\* the flow fail.
C12_JsonRoundTrip ==
    ArchitectTextEnded =>
        LET t == genResp[1].text
            d == DocOf(t)
        IN /\ (BareOrFenced(t) /\ JsonValue(d).present) =>
                 /\ result.status = "ok"
                 /\ Len(result.text) = 1
                 /\ JsonValue(result.text[1]) = JsonValue(d)
           /\ d \in {DocMalformed, DocMissingSteps} => result = Fail


----------------------------------------------------------------------------
(* Properties of the single-shot flows *)

AllFlows == UNION {FlowsOf(v) : v \in Versions}

\* C13: a single-shot flow calls the model at most once per invocation; when
\* that call fails the flow fails, with no second call and no value returned.
C13_NoRetry ==
    /\ \A f \in AllFlows : GenCalls(f) <= 1
    /\ flow # "taskExecutionFlow" => Len(genLog) <= 1
    /\ (/\ flow \in AllFlows \ {"taskExecutionFlow"}
        /\ Len(genResp) = 1
        /\ genResp[1].kind = "throws") =>
           (pc = "done" /\ result = Fail /\ Len(genLog) = 1)
    /\ (flow = "taskExecutionFlow" /\ Len(genResp) >= 1
        /\ genResp[Len(genResp)].kind = "throws") =>
           /\ Len(genLog) = Len(genResp)
           /\ trace[Len(trace)] = Event(genLog[Len(genLog)].flow, "failed")
           /\ result.status # "ok"

C13_Witness ==
    /\ flow = "projectManagerChatFlow"
    /\ pc = "done"
    /\ genResp = <<GenThrows>>
    /\ Len(genLog) = 1
    /\ result = Fail

\* the model call produced no completion
NoCompletion(o) == (o.kind = "text" /\ o.text = <<>>) \/ o.kind = "nooutput"

\* C14: a flow invocation whose model call yields no completion (empty text,
\* or no output object for Architect) fails; no flow returns an empty text or
\* an absent plan as its result.
C14_NoCompletionFails ==
    (/\ flow \in {"projectManagerChatFlow", "architectFlow", "creatorFlow", "editorFlow"}
     /\ pc = "done") =>
        /\ NoCompletion(genResp[1]) => result = Fail
        /\ result.status = "ok" =>
              IF flow = "architectFlow" THEN result.plan.present
              ELSE result.text # <<>>

\* C15: in every flow the message sequence handed to the model is non-empty
\* and ends with a user message, also when the chat history is empty or ends
\* with a model turn.
C15_EndsWithUserTurn ==
    \A k \in 1..Len(genLog) :
        /\ Len(genLog[k].messages) >= 1
        /\ genLog[k].messages[Len(genLog[k].messages)].role = "user"

\* the messages a chat flow built, without the system instruction
ChatMessages ==
    IF flow = "projectManagerChatFlow" THEN Tail(genLog[1].messages)
    ELSE genLog[1].messages

\* C16: the chat flows turn each history turn into one message with the same
\* role and text, in the same order, none dropped or added, and generalChatFlow
\* puts the latest message after them as one user message; the sequence is a
\* function of the history and the latest message.
C16_MessageAssembly ==
    (flow \in ChatFlows /\ Len(genLog) >= 1) =>
        LET h == history.turns
            m == ChatMessages
        IN /\ Len(genLog) = 1
           /\ Len(m) = Len(h) + (IF flow = "generalChatFlow" THEN 1 ELSE 0)
           /\ \A i \in 1..Len(h) :
                 m[i].role = h[i].role /\ m[i].text = h[i].content
           /\ flow = "generalChatFlow" =>
                 (m[Len(h) + 1].role = "user" /\ m[Len(h) + 1].text = input)
           /\ flow = "projectManagerChatFlow" =>
                 genLog[1].messages[1].role = "system"

C16_Witness ==
    /\ flow = "generalChatFlow"
    /\ history = Hist(TRUE, <<Turn("user", <<"hi">>), Turn("model", <<>>)>>)
    /\ Len(genLog) = 1
    /\ genLog[1].messages =
          <<Msg("user", <<"hi">>), Msg("model", <<>>), Msg("user", input)>>


\* C18: taskClassifierFlow calls the model with exactly two messages, a system
\* message and then one user message holding the raw input verbatim between
\* quotes, with temperature 0.0 and without asking for structured output.
C18_ClassifierRequest ==
    (flow = "taskClassifierFlow" /\ Len(genLog) >= 1) =>
        /\ Len(genLog) = 1
        /\ Len(genLog[1].messages) = 2
        /\ genLog[1].messages[1].role = "system"
        /\ genLog[1].messages[2] =
              Msg("user", <<"User Request: \"">> \o input \o <<"\"">>)
        /\ genLog[1].temperature = 0
        /\ genLog[1].output = NoSchema

----------------------------------------------------------------------------
(* Concurrent requests *)

\* the flow whose body issues the k-th port calls of request r
SubFlow(r, k) ==
    IF r.flow = "creatorFlow" THEN "creatorFlow"
    ELSE IF k = 1 THEN "architectFlow" ELSE "creatorFlow"

\* the input of that flow body, from what request r itself was given and received
SubInput(v, r, k) ==
    IF r.flow = "taskExecutionFlow" /\ k = 2 THEN Render(v, r.gens[1].plan)
    ELSE r.input

\* what request r resolves to when it is served on its own and its port calls
\* settle with r.reads and r.gens
AloneResult(r) ==
    IF r.flow = "creatorFlow" THEN CreatorResult(r.gens[1])
    ELSE IF ArchitectResult(r.gens[1]).status # "ok" THEN Fail
    ELSE IF CreatorResult(r.gens[2]).status # "ok" THEN Fail
    ELSE Ok(ConductorReturn(CreatorResult(r.gens[2]).text), NoPlan)

RequestIsolated(i) ==
    LET r == reqs[i] IN
    /\ \A k \in 1..Len(r.sent) :
          r.sent[k] = PromptRequest(SubFlow(r, k), GetPrompt(version, r.reads[k]),
                                    SubInput(version, r, k))
    /\ r.pc = "done" => r.result = AloneResult(r)

\* request j is in flight and its own model call has not hung
Runnable(j) == reqs[j].pc \notin {"idle", "done"} /\ ~reqs[j].hung

\* C17: flow invocations served concurrently are isolated. Every model request
\* of an invocation and its result are what its own input and its own port
\* responses determine, whatever the other invocation did in between; no flow
\* writes to the Prompt Store; and while the model call of one invocation never
\* settles, every other invocation in flight can still take its next step.
C17_RequestsIsolated ==
    /\ store = PromptStore
    /\ \A i \in ReqIds : RequestIsolated(i)
    /\ \A i \in ReqIds : \A j \in ReqIds \ {i} :
          (reqs[i].hung /\ Runnable(j)) => ENABLED ConcAdvance(j)

\* a conductor is stuck in its creator call, holding its plan, while another
\* conductor with a different plan ran to DONE
C17_Witness ==
    /\ reqs["r1"].flow = "taskExecutionFlow"
    /\ reqs["r1"].hung
    /\ reqs["r1"].cstate = "CREATOR_CALLED"
    /\ reqs["r2"].flow = "taskExecutionFlow"
    /\ reqs["r2"].cstate = "DONE"
    /\ reqs["r2"].plan # reqs["r1"].plan
    /\ reqs["r2"].result = Ok(<<"draft">>, NoPlan)

----------------------------------------------------------------------------
(* Termination of the conductor *)

ConductorEnded == pc = "done" /\ cstate \in {"DONE", "FAILED"}

\* C19: when every prompt fetch and model call settles, a taskExecutionFlow
\* invocation reaches DONE or its failure exit, after at most two prompt
\* fetches and two model calls, and makes no port call afterwards.
C19_ConductorTerminates ==
    /\ ConductorRun ~> ConductorEnded
    /\ [](ConductorRun => (Len(storeLog) <= 2 /\ Len(genLog) <= 2))
    /\ [][(ConductorRun /\ ConductorEnded) =>
             (storeLog' = storeLog /\ genLog' = genLog /\ ConductorEnded')]_vars

C19_Witness ==
    /\ ConductorRun
    /\ ConductorEnded
    /\ storeLog = <<"architect", "creator">>
    /\ Len(genLog) = 2
    /\ Len(genResp) = 2

====
